---- MODULE Spec2Model ----
(***************************************************************************)
(* A model of buse-go (src/buse/buse.go): a user-space NBD server.         *)
(*                                                                         *)
(* Goroutines: the caller of CreateDevice/Connect ("connect"), the attach  *)
(* monitor startNBDClient ("monitor"), the goroutine running the blocking  *)
(* NBD_DO_IT ioctl ("doit") and an external caller of Disconnect ("ext").  *)
(* The kernel side of the socket pair is the environment: it writes        *)
(* request headers and WRITE payloads, byte by byte, into the stream that  *)
(* Connect's loop reads, and may shut the stream down at any moment.       *)
(* The storage backend (BuseInterface) is external: each of its calls      *)
(* either succeeds or reports an error, nondeterministically.              *)
(***************************************************************************)
EXTENDS Integers, Sequences, FiniteSets, TLC

\* ---------------------------------------------------------------- bounds
MaxReqs == 2        \* requests the kernel sends in one run
MaxLen == 2         \* largest Length of a request the kernel sends

\* ------------------------------------------------------- program constants
NBD_CMD_READ == 0
NBD_CMD_WRITE == 1
NBD_CMD_DISC == 2
NBD_CMD_FLUSH == 3
NBD_CMD_TRIM == 4
NumOps == 5                       \* len(bd.op)
NBD_REQUEST_MAGIC == 627086611    \* 0x25609513
NBD_REPLY_MAGIC == 1732535960     \* 0x67446698
BufSize == 32                     \* unsafe.Sizeof(nbdRequest{}): 28 bytes padded to 8
HeaderSize == 28                  \* binary.Size(nbdRequest{}): 4+4+8+8+4
ReplySize == 16                   \* binary.Size(nbdReply{}): 4+4+8
EPERM == 1                        \* reply.Error = 1

\* ---------------------------------------------------------------- helpers
Min(a, b) == IF a < b THEN a ELSE b
Take(s, n) == SubSeq(s, 1, n)
Drop(s, n) == SubSeq(s, n + 1, Len(s))
Zeros(n) == [i \in 1..n |-> 0]

\* binary.BigEndian.PutUint32
BE32(n) == << n \div 16777216, (n \div 65536) % 256, (n \div 256) % 256, n % 256 >>

\* A uint32 read off the wire is held as its two 16-bit halves, hi * 2^16 + lo:
\* every value of the type has one, whatever its first byte.
\* uint32(n) for a number n
W(n) == [ hi |-> n \div 65536, lo |-> n % 65536 ]
\* binary.BigEndian.Uint32 of the four bytes b[at..at+3]
U32(b, at) == [ hi |-> b[at] * 256 + b[at + 1], lo |-> b[at + 2] * 256 + b[at + 3] ]
\* min(v, k) for a uint32 v and a number k
MinU32(v, k) == IF v.hi > 0 \/ v.lo > k THEN k ELSE v.lo
\* k < v for a number k and a uint32 v
LessU32(k, v) == v.hi > 0 \/ k < v.lo

\* A byte slice is held as its length, a uint32, and its bytes up to the last
\* one that is not zero: len(s) and s[0:], whatever the length.
RECURSIVE Strip(_)
Strip(s) == IF s # << >> /\ s[Len(s)] = 0 THEN Strip(SubSeq(s, 1, Len(s) - 1)) ELSE s
\* make([]byte, n)
Make(n) == [ len |-> n, pre |-> << >> ]
\* the slice holding the bytes s
Slice(s) == [ len |-> W(Len(s)), pre |-> Strip(s) ]
\* the bytes of a slice shorter than 2^16
Bytes(sl) == sl.pre \o Zeros(sl.len.lo - Len(sl.pre))
\* the slice after its first Len(s) bytes were overwritten with s
Fill(sl, s) == [ len |-> sl.len, pre |-> Strip(s \o Drop(sl.pre, Len(s))) ]

\* an 8-byte handle / offset whose last byte is n
Last8(n) == << 0, 0, 0, 0, 0, 0, 0, n >>
\* the kernel's requests: its handle is a cookie that differs from request to
\* request; READ and WRITE carry a length of at least one byte, TRIM the largest
\* length, the others none; a type beyond the five operations stands for a request the server
\* does not know
Handle(k) == Last8(k)
Offsets == { << 0, 0, 0, 0, 0, 0, 16, 0 >> }     \* From = 4096
Types == 0..NumOps
Lengths(type) ==
    CASE type \in { NBD_CMD_READ, NBD_CMD_WRITE } -> 1..MaxLen
      [] type = NBD_CMD_TRIM -> { MaxLen }
      [] OTHER -> { 0 }

\* what the kernel puts on the wire for one request (struct nbd_request, packed)
EncodeRequest(type, handle, from, length) ==
    BE32(NBD_REQUEST_MAGIC) \o BE32(type) \o handle \o from \o BE32(length)

\* the payload the kernel sends after a WRITE header
Payload(n) == [i \in 1..n |-> 160 + i]
\* what a successful ReadAt leaves in a buffer of n bytes: the store holds
\* MaxLen bytes of data at the offset read, and zeros after them
BackendData(n) == Fill(Make(n), [i \in 1..MinU32(n, MaxLen) |-> 200 + i])

\* binary.Read(bufR, Endian, &request): the first 28 bytes of buf, big endian.
\* From is only ever forwarded to the backend: it is kept as its 8 bytes.
DecodeRequest(b) ==
    [ Magic  |-> U32(b, 1),
      Type   |-> U32(b, 5),
      Handle |-> SubSeq(b, 9, 16),
      From   |-> SubSeq(b, 17, 24),
      Length |-> U32(b, 25) ]

\* binary.Write(bufB, Endian, reply)
EncodeReply(r) == BE32(r.Magic) \o BE32(r.Error) \o r.Handle

\* the fields of a reply header as the kernel reads them off the wire
WireError(bytes) == U32(bytes, 5)
WireHandle(bytes) == SubSeq(bytes, 9, 16)

Procs == { "connect", "monitor", "doit", "ext" }
Callers == { "connect", "ext" }     \* who may run Disconnect

VARIABLES
    created,    \* CreateDevice: "no" (not called), "yes" (device returned), "error"
    exited,     \* log.Fatalf ended the process
    pc,         \* position of each goroutine
    fd,         \* which descriptors are open: dev (deviceFp), s0, s1 (socketPair)
    sockBound,  \* the kernel holds socketPair[1] (NBD_SET_SOCK .. NBD_CLEAR_SOCK)
    trace,      \* the control calls (but NBD_DO_IT), the signal and the closes, in order
    result,     \* what Connect returns: "none", "nil", "error", "panic"
    chan,       \* bytes written by the kernel and not yet read from socketPair[0]
    kpend,      \* payload bytes of the current WRITE the kernel has yet to write
    kopen,      \* the kernel has not shut the stream down
    sent,       \* the types of the requests the kernel has sent, in order
    buf,        \* Connect's buf
    request,    \* Connect's request
    reply,      \* Connect's reply
    chunk,      \* Connect's chunk
    last        \* what the most recent dispatch of the loop did

vars == << created, exited, pc, fd, sockBound, trace, result, chan, kpend, kopen,
           sent, buf, request, reply, chunk, last >>

devVars == << created, fd, sockBound, trace >>
kernVars == << chan, kpend, kopen, sent >>
loopVars == << buf, request, reply, chunk, last >>

Ev(op, by) == [ op |-> op, by |-> by ]

Init ==
    /\ created = "no"
    /\ exited = FALSE
    /\ pc = [ p \in Procs |-> "idle" ]
    /\ fd = [ dev |-> FALSE, s0 |-> FALSE, s1 |-> FALSE ]
    /\ sockBound = FALSE
    /\ trace = << >>
    /\ result = "none"
    /\ chan = << >>
    /\ kpend = << >>
    /\ kopen = TRUE
    /\ sent = << >>
    /\ buf = Zeros(BufSize)
    /\ request = DecodeRequest(Zeros(BufSize))
    /\ reply = [ Magic |-> NBD_REPLY_MAGIC, Error |-> 0, Handle |-> Zeros(8) ]
    /\ chunk = Make(W(0))
    /\ last = [ req |-> DecodeRequest(Zeros(BufSize)), call |-> "none", berr |-> FALSE,
                arg |-> Make(W(0)), got |-> 0, writes |-> << >>, outcome |-> "none",
                prevFailed |-> FALSE, afterDisc |-> FALSE, n |-> 0 ]

\* ------------------------------------------------------------ CreateDevice
\* mutant: construction clears queue and socket but never registers the size
CreateIoctlsNoSize(outcome) ==
    CASE outcome \in { "socketpair_err", "open_err", "size_fatal" } -> << >>
      [] outcome = "clear_que_fatal" -> << "NBD_CLEAR_QUE" >>
      [] OTHER -> << "NBD_CLEAR_QUE", "NBD_CLEAR_SOCK" >>

\* The ioctls CreateDevice gets through before the given outcome stops it.
CreateOutcomes ==
    { "socketpair_err", "open_err", "size_fatal", "clear_que_fatal", "clear_sock_fatal", "ok" }
CreateIoctls(outcome) ==
    CASE outcome \in { "socketpair_err", "open_err" } -> << >>
      [] outcome = "size_fatal" -> << "NBD_SET_SIZE" >>
      [] outcome = "clear_que_fatal" -> << "NBD_SET_SIZE", "NBD_CLEAR_QUE" >>
      [] OTHER -> << "NBD_SET_SIZE", "NBD_CLEAR_QUE", "NBD_CLEAR_SOCK" >>

CreateDevice(outcome) ==
    /\ ~exited
    /\ created = "no"
    /\ LET ops == CreateIoctls(outcome) IN
       trace' = trace \o [ i \in 1..Len(ops) |-> Ev(ops[i], "create") ]
    /\ fd' = [ dev |-> outcome \notin { "socketpair_err", "open_err" },
               s0  |-> outcome # "socketpair_err",
               s1  |-> outcome # "socketpair_err" ]
    /\ created' = CASE outcome = "ok" -> "yes"
                    [] outcome \in { "socketpair_err", "open_err" } -> "error"
                    [] OTHER -> "no"
    /\ exited' = (outcome \in { "size_fatal", "clear_que_fatal", "clear_sock_fatal" })
    /\ UNCHANGED << pc, sockBound, result, kernVars, loopVars >>

\* ---------------------------------------------------------- startNBDClient
\* ioctl(): a failing control call ends the process (log.Fatalf)
MonSetSock(ok) ==
    /\ ~exited
    /\ pc["monitor"] = "set_sock"
    /\ trace' = Append(trace, Ev("NBD_SET_SOCK", "monitor"))
    /\ sockBound' = ok
    /\ exited' = ~ok
    /\ pc' = [ pc EXCEPT !["monitor"] = IF ok THEN "set_flags" ELSE @ ]
    /\ UNCHANGED << created, fd, result, kernVars, loopVars >>

MonSetFlags(ok) ==
    /\ ~exited
    /\ pc["monitor"] = "set_flags"
    /\ trace' = Append(trace, Ev("NBD_SET_FLAGS", "monitor"))
    /\ exited' = ~ok
    /\ pc' = [ pc EXCEPT !["monitor"] = IF ok THEN "go_doit" ELSE @ ]
    /\ UNCHANGED << created, fd, sockBound, result, kernVars, loopVars >>

\* go ioctl(bd.deviceFp.Fd(), NBD_DO_IT, 0): the goroutine is started, the call
\* itself is issued when that goroutine runs
MonGoDoIt ==
    /\ ~exited
    /\ pc["monitor"] = "go_doit"
    /\ pc' = [ pc EXCEPT !["monitor"] = "recv", !["doit"] = "spawned" ]
    /\ UNCHANGED << created, exited, devVars, result, kernVars, loopVars >>

\* The goroutine issues NBD_DO_IT. The call is refused on a closed descriptor or
\* with no socket bound, and ioctl() then ends the process; otherwise it blocks.
\* pc["doit"] records which: "issued" or "refused".
DoItIssue ==
    /\ ~exited
    /\ pc["doit"] = "spawned"
    /\ LET ok == fd.dev /\ sockBound IN
       /\ exited' = ~ok
       /\ pc' = [ pc EXCEPT !["doit"] = IF ok THEN "issued" ELSE "refused" ]
    /\ UNCHANGED << created, devVars, result, kernVars, loopVars >>

\* NBD_DO_IT returns once the device is detached. A return without error ends
\* the goroutine and changes nothing; a return with an error (the kernel's
\* choice) ends the process in ioctl().
DoItFatal ==
    /\ ~exited
    /\ pc["doit"] = "issued"
    /\ ~sockBound \/ ~kopen
    /\ exited' = TRUE
    /\ UNCHANGED << created, pc, devVars, result, kernVars, loopVars >>

\* ---------------------------------------------------------------- Disconnect
TeardownSteps ==
    { "d_clear_que", "d_clear_sock", "d_close_s0", "d_close_s1", "d_close_dev" }

\* mutant: the device descriptor is closed before the two socket ends
DisconnectNextDevFirst(step) ==
    CASE step = "d_signal"     -> "d_clear_que"
      [] step = "d_clear_que"  -> "d_clear_sock"
      [] step = "d_clear_sock" -> "d_close_dev"
      [] step = "d_close_dev"  -> "d_close_s0"
      [] step = "d_close_s0"   -> "d_close_s1"
      [] step = "d_close_s1"   -> "returned"

\* the statement after each statement of Disconnect
DisconnectNext(step) ==
    CASE step = "d_signal"     -> "d_clear_que"
      [] step = "d_clear_que"  -> "d_clear_sock"
      [] step = "d_clear_sock" -> "d_close_s0"
      [] step = "d_close_s0"   -> "d_close_s1"
      [] step = "d_close_s1"   -> "d_close_dev"
      [] step = "d_close_dev"  -> "returned"

DisconnectOp(step) ==
    CASE step = "d_signal"     -> "signal"
      [] step = "d_clear_que"  -> "NBD_CLEAR_QUE"
      [] step = "d_clear_sock" -> "NBD_CLEAR_SOCK"
      [] step = "d_close_s0"   -> "close_s0"
      [] step = "d_close_s1"   -> "close_s1"
      [] step = "d_close_dev"  -> "close_dev"

\* mutant: the send never waits for a receiver (a buffered or non-blocking send)
CanSignalAlways == TRUE

\* bd.disconnect is unbuffered: a send completes only with startNBDClient at
\* its receive
CanSignal == pc["monitor"] = "recv"

\* Connect reaches its deferred Disconnect when it returns; an external caller
\* may call Disconnect on a created device at any time, and its first statement
\* is the send
AtSignal(p) == pc[p] = "d_signal" \/ (p = "ext" /\ pc[p] = "idle" /\ created = "yes")

\* bd.disconnect <- 1 meets <-bd.disconnect
DisconnectSignal(p) ==
    /\ ~exited
    /\ AtSignal(p)
    /\ CanSignal
    /\ trace' = Append(trace, Ev(DisconnectOp("d_signal"), p))
    /\ pc' = [ pc EXCEPT ![p] = DisconnectNext("d_signal"),
                         !["monitor"] = IF @ = "recv" THEN "done" ELSE @ ]
    /\ UNCHANGED << created, exited, fd, sockBound, result, kernVars, loopVars >>

\* the two control calls (results ignored) and the three closes
DisconnectStep(p) ==
    /\ ~exited
    /\ pc[p] \in TeardownSteps
    /\ LET step == pc[p] IN
       /\ trace' = Append(trace, Ev(DisconnectOp(step), p))
       /\ sockBound' = IF step = "d_clear_sock" /\ fd.dev THEN FALSE ELSE sockBound
       /\ fd' = CASE step = "d_close_s0"  -> [ fd EXCEPT !.s0 = FALSE ]
                  [] step = "d_close_s1"  -> [ fd EXCEPT !.s1 = FALSE ]
                  [] step = "d_close_dev" -> [ fd EXCEPT !.dev = FALSE ]
                  [] OTHER -> fd
       /\ pc' = [ pc EXCEPT ![p] = DisconnectNext(step) ]
    /\ UNCHANGED << created, exited, result, kernVars, loopVars >>

\* ------------------------------------------------------------------- kernel
KernelSendHeader(type, handle, from, length) ==
    /\ ~exited
    /\ sockBound /\ kopen
    /\ kpend = << >>
    /\ Len(sent) < MaxReqs
    /\ chan' = chan \o EncodeRequest(type, handle, from, length)
    /\ kpend' = IF type = NBD_CMD_WRITE THEN Payload(length) ELSE << >>
    /\ sent' = Append(sent, type)
    /\ UNCHANGED << created, exited, pc, devVars, result, kopen, loopVars >>

\* the payload may reach the stream in pieces
KernelSendPayload(k) ==
    /\ ~exited
    /\ sockBound /\ kopen
    /\ k \in 1..Len(kpend)
    /\ chan' = chan \o Take(kpend, k)
    /\ kpend' = Drop(kpend, k)
    /\ UNCHANGED << created, exited, pc, devVars, result, kopen, sent, loopVars >>

\* the kernel shuts the stream down; what it had not written is never written
KernelClose ==
    /\ ~exited
    /\ sockBound /\ kopen
    /\ kopen' = FALSE
    /\ kpend' = << >>
    /\ UNCHANGED << created, exited, pc, devVars, result, chan, sent, loopVars >>

\* ----------------------------------------------------------------- Connect
\* fp.Read(p) with len(p) = n on the blocking stream socket: it returns at once
\* for an empty p, fails on a closed descriptor, returns the bytes at hand (at
\* most n), reports the end of the stream, and otherwise waits
CanRead(n) == n = 0 \/ ~fd.s0 \/ Len(chan) > 0 \/ ~kopen
ReadErr(n) == n > 0 /\ (~fd.s0 \/ Len(chan) = 0)
ReadCount(n) == Min(n, Len(chan))
\* len(p) as far as one read can tell: the stream never holds 2^16 bytes
ReadLen(sl) == MinU32(sl.len, 65535)

\* fp.Write(p): fails on a closed descriptor or a stream the peer shut down
WriteOk == fd.s0 /\ kopen
Wr(sl) == [ bytes |-> sl, ok |-> WriteOk ]

\* mutant: the handle is not copied from the request
PrepareReplyKeepHandle(rep, req) == [ rep EXCEPT !.Error = 0 ]
\* mutant: the error of the previous reply is not cleared
PrepareReplyKeepError(rep, req) == [ rep EXCEPT !.Handle = req.Handle ]

\* reply.Handle = request.Handle ... reply.Error = 0
PrepareReply(rep, req) == [ rep EXCEPT !.Handle = req.Handle, !.Error = 0 ]

\* mutant: a backend error is not put into the reply
SetErrorNever(rep, berr) == rep

\* reply.Error = 1 when the backend call reported an error
SetError(rep, berr) == IF berr THEN [ rep EXCEPT !.Error = EPERM ] ELSE rep

\* mutant: the data chunk is written before the reply header
ReadWritesChunkFirst(rep, data) == << data, Slice(EncodeReply(rep)) >>

\* opDeviceRead: what its two fp.Write calls are given, bufB.Bytes() and then
\* chunk
ReadWrites(rep, data) == << Slice(EncodeReply(rep)), data >>

\* mutant: the handler hands the backend's error to the loop
HandlerReturnsBackendError(berr) == berr

\* what a handler returns after its backend call: nil, whether or not the call
\* reported an error (TRUE stands for a non-nil error)
HandlerReturns(berr) == FALSE

\* what the loop does after a handler returned err: return err (and so run the
\* deferred Disconnect), or read the next request
AfterHandler(err) == IF err THEN "d_signal" ELSE "read"

\* mutant: a request of unknown type is skipped and the loop reads on
AfterPanicSkip == "read"

\* where an index outside bd.op leaves Connect: unwinding into the deferred
\* Disconnect
AfterPanic == "d_signal"

\* the record of one dispatch: the request as decoded, the backend call made for
\* it ("none" when none was made), whether that call reported an error, the
\* buffer passed to it, the payload bytes read for it, the writes to the
\* channel in order, and how the handler ended ("ok", "fatal", "panic";
\* "running" while it is between two of its system calls);
\* prevFailed: the backend call of the dispatch before it reported an error;
\* afterDisc: a DISCONNECT request was dispatched before it; n: how many
\* dispatches the loop has made, this one included
Served(call, berr, arg, got, writes, outcome) ==
    [ req |-> request, call |-> call, berr |-> berr, arg |-> arg, got |-> got,
      writes |-> writes, outcome |-> outcome,
      prevFailed |-> last.berr,
      afterDisc |-> (last.afterDisc \/ last.call = "Disconnect"),
      n |-> last.n + 1 ]

\* go bd.startNBDClient(); defer bd.Disconnect()
ConnectStart ==
    /\ ~exited
    /\ created = "yes"
    /\ pc["connect"] = "idle"
    /\ pc' = [ pc EXCEPT !["connect"] = "open", !["monitor"] = "set_sock" ]
    /\ UNCHANGED << created, exited, devVars, result, kernVars, loopVars >>

\* tmp, err := os.Open(bd.device)
ConnectOpen(ok) ==
    /\ ~exited
    /\ pc["connect"] = "open"
    /\ result' = IF ok THEN result ELSE "error"
    /\ pc' = [ pc EXCEPT !["connect"] = IF ok THEN "read" ELSE "d_signal" ]
    /\ UNCHANGED << created, exited, devVars, kernVars, loopVars >>

\* mutant: the loop hands the read error to Connect's caller
ReadFailResultErr == "error"

\* what Connect returns when fp.Read(buf) fails: nil
ReadFailResult == "nil"

\* fp.Read(buf) failed: return nil
LoopReadFail ==
    /\ ~exited
    /\ pc["connect"] = "read"
    /\ CanRead(BufSize) /\ ReadErr(BufSize)
    /\ result' = ReadFailResult
    /\ pc' = [ pc EXCEPT !["connect"] = "d_signal" ]
    /\ UNCHANGED << created, exited, devVars, kernVars, loopVars >>

\* fp.Read(buf); binary.Read; reply.Handle, chunk, reply.Error
LoopRead ==
    /\ ~exited
    /\ pc["connect"] = "read"
    /\ CanRead(BufSize) /\ ~ReadErr(BufSize)
    /\ LET n == ReadCount(BufSize)
           b == Take(chan, n) \o Drop(buf, n)
       IN  /\ buf' = b
           /\ chan' = Drop(chan, n)
           /\ request' = DecodeRequest(b)
           /\ reply' = PrepareReply(reply, DecodeRequest(b))
           /\ chunk' = Make(DecodeRequest(b).Length)
    /\ pc' = [ pc EXCEPT !["connect"] = "dispatch" ]
    /\ UNCHANGED << created, exited, devVars, result, kpend, kopen, sent, last >>

\* request.Type indexes bd.op
InTable(t) == t.hi = 0 /\ t.lo < NumOps

\* bd.op[request.Type] with Type outside the table: a run-time panic, which
\* runs the deferred Disconnect on its way out of Connect
DispatchPanic ==
    /\ ~exited
    /\ pc["connect"] = "dispatch"
    /\ ~InTable(request.Type)
    /\ last' = Served("none", FALSE, Make(W(0)), 0, << >>, "panic")
    /\ result' = "panic"
    /\ pc' = [ pc EXCEPT !["connect"] = AfterPanic ]
    /\ UNCHANGED << created, exited, devVars, kernVars, buf, request, reply, chunk >>

\* opDeviceRead up to its first write: driver.ReadAt(chunk, from), reply.Error,
\* fp.Write(bufB.Bytes())
opDeviceRead(berr) ==
    /\ ~exited
    /\ pc["connect"] = "dispatch"
    /\ request.Type = W(NBD_CMD_READ)
    /\ LET data == IF berr THEN chunk ELSE BackendData(chunk.len)
           rep == SetError(reply, berr)
       IN  /\ chunk' = data
           /\ reply' = rep
           /\ last' = Served("ReadAt", berr, chunk, 0,
                                              << Wr(ReadWrites(rep, data)[1]) >>, "running")
    /\ pc' = [ pc EXCEPT !["connect"] = "read_write2" ]
    /\ UNCHANGED << created, exited, devVars, result, kernVars, buf, request >>

\* opDeviceRead's second write, fp.Write(chunk), and its return
opDeviceReadChunk ==
    /\ ~exited
    /\ pc["connect"] = "read_write2"
    /\ last' = [ last EXCEPT !.writes = Append(@, Wr(ReadWrites(reply, chunk)[2])),
                             !.outcome = "ok" ]
    /\ result' = IF HandlerReturns(last.berr) THEN "error" ELSE result
    /\ pc' = [ pc EXCEPT !["connect"] = AfterHandler(HandlerReturns(last.berr)) ]
    /\ UNCHANGED << created, exited, devVars, kernVars, buf, request, reply, chunk >>

\* fp.Read(chunk) failed: the handler returns an error and so does Connect
opDeviceWriteFail ==
    /\ ~exited
    /\ pc["connect"] = "dispatch"
    /\ request.Type = W(NBD_CMD_WRITE)
    /\ CanRead(ReadLen(chunk)) /\ ReadErr(ReadLen(chunk))
    /\ last' = Served("none", FALSE, Make(W(0)), 0, << >>, "fatal")
    /\ result' = "error"
    /\ pc' = [ pc EXCEPT !["connect"] = AfterHandler(TRUE) ]
    /\ UNCHANGED << created, exited, devVars, kernVars, buf, request, reply, chunk >>

\* opDeviceWrite's fp.Read(chunk): one read, which returns the bytes at hand
opDeviceWritePayload ==
    /\ ~exited
    /\ pc["connect"] = "dispatch"
    /\ request.Type = W(NBD_CMD_WRITE)
    /\ CanRead(ReadLen(chunk)) /\ ~ReadErr(ReadLen(chunk))
    /\ LET n == ReadCount(ReadLen(chunk))
       IN  /\ chan' = Drop(chan, n)
           /\ chunk' = Fill(chunk, Take(chan, n))
           /\ last' = Served("none", FALSE, Make(W(0)), n, << >>, "running")
    /\ pc' = [ pc EXCEPT !["connect"] = "write_call" ]
    /\ UNCHANGED << created, exited, devVars, result, kpend, kopen, sent, buf, request, reply >>

\* the rest of opDeviceWrite: driver.WriteAt(chunk, from), reply.Error,
\* fp.Write(bufB.Bytes())
opDeviceWrite(berr) ==
    /\ ~exited
    /\ pc["connect"] = "write_call"
    /\ LET rep == SetError(reply, berr)
       IN  /\ reply' = rep
           /\ last' = [ last EXCEPT !.call = "WriteAt", !.berr = berr, !.arg = chunk,
                                    !.writes = << Wr(Slice(EncodeReply(rep))) >>,
                                    !.outcome = "ok" ]
    /\ result' = IF HandlerReturns(berr) THEN "error" ELSE result
    /\ pc' = [ pc EXCEPT !["connect"] = AfterHandler(HandlerReturns(berr)) ]
    /\ UNCHANGED << created, exited, devVars, kernVars, buf, request, chunk >>

opDeviceDisconnect ==
    /\ ~exited
    /\ pc["connect"] = "dispatch"
    /\ request.Type = W(NBD_CMD_DISC)
    /\ last' = Served("Disconnect", FALSE, Make(W(0)), 0, << >>, "ok")
    /\ pc' = [ pc EXCEPT !["connect"] = AfterHandler(FALSE) ]
    /\ UNCHANGED << created, exited, devVars, result, kernVars, buf, request, reply, chunk >>

opDeviceFlush(berr) ==
    /\ ~exited
    /\ pc["connect"] = "dispatch"
    /\ request.Type = W(NBD_CMD_FLUSH)
    /\ LET rep == SetError(reply, berr)
       IN  /\ reply' = rep
           /\ last' = Served("Flush", berr, Make(W(0)), 0,
                                              << Wr(Slice(EncodeReply(rep))) >>, "ok")
    /\ result' = IF HandlerReturns(berr) THEN "error" ELSE result
    /\ pc' = [ pc EXCEPT !["connect"] = AfterHandler(HandlerReturns(berr)) ]
    /\ UNCHANGED << created, exited, devVars, kernVars, buf, request, chunk >>

opDeviceTrim(berr) ==
    /\ ~exited
    /\ pc["connect"] = "dispatch"
    /\ request.Type = W(NBD_CMD_TRIM)
    /\ LET rep == SetError(reply, berr)
       IN  /\ reply' = rep
           /\ last' = Served("Trim", berr, Make(W(0)), 0,
                                              << Wr(Slice(EncodeReply(rep))) >>, "ok")
    /\ result' = IF HandlerReturns(berr) THEN "error" ELSE result
    /\ pc' = [ pc EXCEPT !["connect"] = AfterHandler(HandlerReturns(berr)) ]
    /\ UNCHANGED << created, exited, devVars, kernVars, buf, request, chunk >>

\* ------------------------------------------------------------ specification
Next ==
    \/ \E o \in CreateOutcomes : CreateDevice(o)
    \/ ConnectStart
    \/ \E ok \in BOOLEAN : ConnectOpen(ok)
    \/ \E ok \in BOOLEAN : MonSetSock(ok)
    \/ \E ok \in BOOLEAN : MonSetFlags(ok)
    \/ MonGoDoIt
    \/ DoItIssue
    \/ DoItFatal
    \/ \E p \in Callers : DisconnectSignal(p)
    \/ \E p \in Callers : DisconnectStep(p)
    \/ \E t \in Types, f \in Offsets : \E l \in Lengths(t) :
          KernelSendHeader(t, Handle(Len(sent) + 1), f, l)
    \/ \E k \in 1..MaxLen : KernelSendPayload(k)
    \/ KernelClose
    \/ LoopReadFail
    \/ LoopRead
    \/ DispatchPanic
    \/ \E berr \in BOOLEAN : opDeviceRead(berr)
    \/ opDeviceReadChunk
    \/ opDeviceWriteFail
    \/ opDeviceWritePayload
    \/ \E berr \in BOOLEAN : opDeviceWrite(berr)
    \/ opDeviceDisconnect
    \/ \E berr \in BOOLEAN : opDeviceFlush(berr)
    \/ \E berr \in BOOLEAN : opDeviceTrim(berr)

Spec == Init /\ [][Next]_vars

\* ===================================================================== claims
ReplyTypes == { W(NBD_CMD_READ), W(NBD_CMD_WRITE), W(NBD_CMD_FLUSH), W(NBD_CMD_TRIM) }

\* the most recent dispatch was of a READ, WRITE, FLUSH or TRIM request and its
\* handler ran to its end
Replied == last.outcome = "ok" /\ last.req.Type \in ReplyTypes

\* the steps of Disconnect as they appear in trace
TeardownOrder ==
    << "signal", "NBD_CLEAR_QUE", "NBD_CLEAR_SOCK", "close_s0", "close_s1", "close_dev" >>
TeardownOps == { TeardownOrder[i] : i \in 2..Len(TeardownOrder) }

\* the operations a caller of Disconnect has issued, in order
IsBy(p, e) == e.by = p
OpsBy(p) ==
    LET evs == SelectSeq(trace, LAMBDA e : IsBy(p, e))
    IN  [ i \in 1..Len(evs) |-> evs[i].op ]

\* how often a teardown operation was executed by the callers of Disconnect
TimesDone(op) ==
    Cardinality({ i \in 1..Len(trace) : trace[i].op = op /\ trace[i].by \in Callers })

AllClosed == ~fd.s0 /\ ~fd.s1 /\ ~fd.dev

\* the bytes given to the first write of the most recent dispatch
FirstWrite == Bytes(last.writes[1].bytes)

\* C1: the reply header written for a dispatched READ, WRITE, FLUSH or TRIM
\* request carries the handle of that request, as the loop decoded it.
C1_ReplyEchoesHandle ==
    Replied =>
        /\ Len(last.writes) >= 1
        /\ WireHandle(FirstWrite) = last.req.Handle

\* C1 witness: the second request of a run (its handle differs from the first
\* request's) was dispatched and its reply header written to an open channel.
C1_Witness ==
    /\ Replied
    /\ last.req.Handle = Handle(2)
    /\ last.writes[1].ok
    /\ WireHandle(FirstWrite) = Handle(2)

\* C2: the operations of every caller of Disconnect appear in the fixed order
\* signal, clear queue, clear socket, close socketPair[0], close socketPair[1],
\* close the device: what a caller has done so far is a prefix of that order.
C2_TeardownOrder ==
    \A p \in Callers :
        /\ Len(OpsBy(p)) <= Len(TeardownOrder)
        /\ OpsBy(p) = Take(TeardownOrder, Len(OpsBy(p)))

\* C2 witness: a Disconnect ran to completion.
C2_Witness ==
    \E p \in Callers : pc[p] = "returned" /\ OpsBy(p) = TeardownOrder

\* C3: with Disconnect entered from Connect's defer and by an external caller,
\* each teardown operation is executed at most once.
C3_TeardownAtMostOnce == \A op \in TeardownOps : TimesDone(op) <= 1

\* C3 witness: the external Disconnect ran to completion and Connect's deferred
\* Disconnect has been entered as well.
C3_Witness ==
    /\ pc["ext"] = "returned"
    /\ pc["connect"] = "d_signal"
    /\ \A op \in TeardownOps : TimesDone(op) = 1

\* the steps of the goroutine that called Connect
ConnectNext ==
    \/ \E ok \in BOOLEAN : ConnectOpen(ok)
    \/ LoopReadFail
    \/ LoopRead
    \/ DispatchPanic
    \/ \E berr \in BOOLEAN : opDeviceRead(berr)
    \/ opDeviceReadChunk
    \/ opDeviceWriteFail
    \/ opDeviceWritePayload
    \/ \E berr \in BOOLEAN : opDeviceWrite(berr)
    \/ opDeviceDisconnect
    \/ \E berr \in BOOLEAN : opDeviceFlush(berr)
    \/ \E berr \in BOOLEAN : opDeviceTrim(berr)
    \/ DisconnectSignal("connect")
    \/ DisconnectStep("connect")

\* C4: once the device is disconnected Connect returns, with both socket ends
\* and the device descriptor closed. Stated for the external path so that a
\* finite run decides it: after an external Disconnect, made while Connect had
\* not failed on its own, has completed, Connect has returned or can still take
\* a step.
C4_ConnectReturns ==
    /\ pc["connect"] = "returned" => AllClosed
    /\ (pc["ext"] = "returned" /\ ~exited /\ result \in { "none", "nil" }) =>
           (pc["connect"] = "returned" \/ ENABLED ConnectNext)

\* C5: a DISCONNECT request makes the loop call the backend's Disconnect, write
\* no reply, and dispatch no request after it.
C5_NothingAfterDisconnect ==
    /\ (last.outcome # "none" /\ last.req.Type = W(NBD_CMD_DISC)) =>
           (last.call = "Disconnect" /\ last.writes = << >>)
    /\ ~last.afterDisc

\* C6: when the backend call of a READ, WRITE, FLUSH or TRIM request reports an
\* error the handler still writes exactly one reply header, with a non-zero
\* error; for READ a payload of Length bytes follows it, for the others nothing.
C6_ErrorReplyShape ==
    (Replied /\ last.berr) =>
        /\ Len(last.writes) >= 1
        /\ last.writes[1].bytes.len = W(ReplySize)
        /\ WireError(FirstWrite) # W(0)
        /\ last.req.Type = W(NBD_CMD_READ) =>
               (Len(last.writes) = 2 /\ last.writes[2].bytes.len = last.req.Length)
        /\ last.req.Type # W(NBD_CMD_READ) => Len(last.writes) = 1

\* C6 witness: a READ of two bytes whose ReadAt failed was answered on an open
\* channel.
C6_Witness ==
    /\ Replied /\ last.berr
    /\ last.req.Type = W(NBD_CMD_READ) /\ last.req.Length = W(2)
    /\ last.writes[1].ok /\ last.writes[2].ok
    /\ last.writes[2].bytes.len = W(2)

\* C7: the error field of a reply is non-zero exactly when the backend call made
\* for that request reported an error.
C7_ErrorIffBackendError ==
    Replied =>
        /\ Len(last.writes) >= 1
        /\ (WireError(FirstWrite) # W(0)) <=> last.berr

\* C7 witness: a request whose backend call succeeded is answered with error 0
\* right after a request whose backend call failed.
C7_Witness ==
    /\ Replied /\ ~last.berr /\ last.prevFailed
    /\ WireError(FirstWrite) = W(0)
    /\ last.writes[1].ok

\* C8: a dispatch whose backend call reported an error, once its handler has
\* returned, leaves the loop at its
\* read of the next request, and Connect's result untouched.
C8_BackendErrorKeepsServing ==
    [][ (last' # last /\ last'.berr /\ last'.outcome = "ok") =>
            (pc'["connect"] = "read" /\ result' = result /\ result = "none") ]_vars

\* C8 witness: after a FLUSH whose backend call failed the loop has read the
\* next request, a READ, and is dispatching it.
C8_Witness ==
    /\ last.call = "Flush" /\ last.berr
    /\ WireError(FirstWrite) # W(0)
    /\ pc["connect"] = "dispatch"
    /\ request.Type = W(NBD_CMD_READ) /\ request.Handle = Handle(2)

\* C9: a WRITE whose payload cannot be fully read (the stream has ended and
\* what was read plus what is left is less than Length bytes) stops the loop:
\* no WriteAt, no reply, Connect returns an error through its deferred
\* Disconnect.
C9_ShortPayloadStopsLoop ==
    [][ ( /\ pc["connect"] = "write_call"
          /\ fd.s0 /\ ~kopen /\ LessU32(last.got + Len(chan), request.Length)
          /\ pc'["connect"] # pc["connect"] ) =>
            ( /\ last'.call = "none" /\ last'.writes = << >>
              /\ pc'["connect"] = "d_signal" /\ result' = "error" ) ]_vars

\* C10: a request whose type is outside the five operations ends the loop: no
\* backend call, no reply, nothing more is read from the channel, and Connect
\* goes into its deferred Disconnect.
C10_UnknownTypeIsFatal ==
    /\ [](result = "panic" =>
            /\ pc["connect"] \notin { "read", "dispatch" }
            /\ last.call = "none" /\ last.writes = << >> /\ last.outcome = "panic")
    /\ [][ ( /\ pc["connect"] = "dispatch" /\ ~InTable(request.Type)
             /\ pc'["connect"] # pc["connect"] ) =>
               ( /\ pc'["connect"] = "d_signal" /\ result' = "panic"
                 /\ last'.call = "none" /\ last'.writes = << >>
                 /\ chan' = chan ) ]_vars

\* C10 witness: a request of type 5 was dispatched while a later request was
\* waiting in the channel, and Connect has returned.
C10_Witness ==
    /\ result = "panic" /\ last.req.Type = W(NumOps)
    /\ pc["connect"] = "returned"
    /\ Len(chan) >= HeaderSize

\* the reply magic 0x67446698 in wire order
ReplyMagicBytes == << 103, 68, 102, 152 >>

\* C11: for a READ whose ReadAt succeeded the handler writes the reply header
\* (magic, error 0, the request's handle) and right after it the Length bytes
\* the backend put into the buffer, and nothing else.
C11_ReadReplyBytes ==
    (last.call = "ReadAt" /\ ~last.berr /\ last.outcome = "ok") =>
        /\ Len(last.writes) = 2
        /\ last.writes[1].bytes =
              Slice(ReplyMagicBytes \o << 0, 0, 0, 0 >> \o last.req.Handle)
        /\ last.writes[2].bytes = BackendData(last.req.Length)

\* C11 witness: a READ of two bytes succeeded and both writes reached an open
\* channel.
C11_Witness ==
    /\ last.call = "ReadAt" /\ ~last.berr /\ last.req.Length = W(2)
    /\ Len(last.writes) = 2 /\ last.writes[1].ok /\ last.writes[2].ok
    /\ Bytes(last.writes[2].bytes) = << 201, 202 >>

\* CreateDevice stopped at os.OpenFile: the socket pair exists, the device
\* node is not open
OpenFailed == created = "error" /\ fd.s0 /\ ~fd.dev

\* CreateDevice stopped at NBD_SET_SIZE: it is the only control call issued
SizeRejected == created # "yes" /\ trace = << Ev("NBD_SET_SIZE", "create") >>

\* C12: when the device node cannot be opened or NBD_SET_SIZE is rejected,
\* CreateDevice returns an error to its caller (the process goes on, holding
\* no device).
C12_CreateReportsError ==
    (OpenFailed \/ SizeRejected) => (created = "error" /\ ~exited)

\* C13: a rejected NBD_SET_FLAGS is tolerated: once the monitor has issued it,
\* the monitor has gone on to start NBD_DO_IT and the process is still running
\* unless something later ended it.
C13_FlagsFailureTolerated ==
    (\E i \in 1..Len(trace) : trace[i].op = "NBD_SET_FLAGS") =>
        pc["monitor"] \in { "go_doit", "recv", "done" }

\* C14: WriteAt is called only once all Length payload bytes of the WRITE have
\* been taken from the channel, its buffer holding exactly those bytes, however
\* the kernel split the payload.
C14_WriteAtGetsWholePayload ==
    last.call = "WriteAt" =>
        /\ last.arg.len = last.req.Length
        /\ W(last.got) = last.req.Length

\* C15: a header read of the loop takes exactly the HeaderSize bytes of one
\* request header from the channel, leaving whatever follows them there.
C15_HeaderReadTakesOneHeader ==
    [][ (pc["connect"] = "read" /\ pc'["connect"] = "dispatch") =>
            Len(chan) - Len(chan') = HeaderSize ]_vars

\* the positions in trace of a control call, whoever issued it
At(op) == { i \in 1..Len(trace) : trace[i].op = op }

\* C16: over the life of a device NBD_SET_SIZE is issued exactly once, by
\* construction; it and construction's NBD_CLEAR_QUE and NBD_CLEAR_SOCK come
\* before NBD_SET_SOCK, and no NBD_SET_SIZE comes after it.
C16_SizeOnceBeforeBind ==
    /\ Cardinality(At("NBD_SET_SIZE")) <= 1
    /\ created = "yes" => Cardinality(At("NBD_SET_SIZE")) = 1
    /\ \A j \in At("NBD_SET_SOCK") :
          /\ \A op \in { "NBD_SET_SIZE", "NBD_CLEAR_QUE", "NBD_CLEAR_SOCK" } :
                \E i \in 1..(j - 1) : trace[i] = Ev(op, "create")
          /\ \A i \in At("NBD_SET_SIZE") : i < j

\* C16 witness: a device was created, bound, served and torn down by Connect.
C16_Witness ==
    /\ At("NBD_SET_SOCK") # {}
    /\ pc["connect"] = "returned"
    /\ OpsBy("connect") = TeardownOrder

\* C17: requests are answered one at a time and in order: as long as the
\* kernel has sent READ, WRITE, FLUSH and TRIM requests only, the n-th dispatch
\* of the loop is for the n-th request sent, and the one reply header it writes
\* is that request's.
C17_RepliesInRequestOrder ==
    (\A i \in 1..Len(sent) : W(sent[i]) \in ReplyTypes) =>
        /\ last.n <= Len(sent)
        /\ Replied =>
              /\ last.req.Type = W(sent[last.n])
              /\ last.writes[1].bytes.len = W(ReplySize)
              /\ WireHandle(FirstWrite) = Handle(last.n)
              /\ \A i \in 2..Len(last.writes) : last.req.Type = W(NBD_CMD_READ) /\ i = 2

\* C18: a failed header read ends the loop as a normal shutdown: Connect goes
\* into Disconnect with nil as its result, and when it has returned the whole
\* teardown was done by it and every descriptor is closed.
C18_ReadFailureIsNormalShutdown ==
    /\ []((pc["connect"] = "returned" /\ result = "nil") =>
                (OpsBy("connect") = TeardownOrder /\ AllClosed))
    /\ [][ (pc["connect"] = "read" /\ pc'["connect"] \notin { "read", "dispatch" }) =>
                /\ result' = "nil"
                /\ pc'["connect"] = "d_signal" ]_vars

\* C18 witness: the header read failed after a request was served, and Connect
\* returned nil with the teardown done.
C18_Witness ==
    /\ pc["connect"] = "returned" /\ result = "nil"
    /\ last.outcome = "ok"
    /\ OpsBy("connect") = TeardownOrder /\ AllClosed

\* C19: no step of a teardown (clear queue, clear socket, closing a socket end,
\* closing the device) comes before the monitor's NBD_SET_SOCK, and a
\* Disconnect on a device that Connect was never called on does nothing.
C19_NoTeardownBeforeBind ==
    /\ \A i \in 1..Len(trace) :
          (trace[i].by \in Callers /\ trace[i].op \in TeardownOps) =>
              \E j \in 1..(i - 1) : trace[j] = Ev("NBD_SET_SOCK", "monitor")
    /\ pc["connect"] = "idle" =>
          (OpsBy("ext") = << >> /\ (created = "yes" => fd.dev /\ fd.s0 /\ fd.s1))

\* C19 witness: another caller's Disconnect has cleared the queue, after the
\* bind, while Connect was still inside its loop.
C19_Witness ==
    /\ \E i \in 1..Len(trace) : trace[i] = Ev("NBD_CLEAR_QUE", "ext")
    /\ At("NBD_SET_SOCK") # {}
    /\ pc["connect"] \in { "read", "dispatch" }

\* C20: NBD_DO_IT is never issued on the device descriptor once Disconnect has
\* closed it: a refused NBD_DO_IT was refused on an open descriptor.
C20_NoDoItOnClosedDevice ==
    pc["doit"] = "refused" => fd.dev

====
